---- MODULE Spec2Model ----
(***************************************************************************)
(* RTP Statistics & Anomaly Engine (rtp/src/core/rtp-stats.js with its     *)
(* calculator rtp/src/core/rtp-calc.js) and the batched round ingestor     *)
(* (rtp/src/scripts/data.js, class APIDataSource), the calculators used    *)
(* on their own (rtp/src/core/rtp-calc.js, src/core/rtp-stats.js) and the  *)
(* concurrent batch runner executeGameTest (api/src/core/rtp-orch.js).     *)
(*                                                                         *)
(* JavaScript numbers are modelled as exact rationals [n, d] in lowest     *)
(* terms; floating-point rounding is not modelled.  Values that the code   *)
(* uses without knowing their type (the results of the calculator) are     *)
(* tagged records [k, v] with k one of "number", "NaN", "undefined",       *)
(* "boolean", "object", and the JavaScript operators on them follow the    *)
(* language's coercion rules.  Logging and timestamps are left out.        *)
(***************************************************************************)
EXTENDS Integers, Sequences, FiniteSets, TLC

VARIABLES
    config,          \* RTPStatistics.config
    gameData,        \* RTPCalculator.gameData (Map gameId -> rounds) of this.rtpCalculator
    gameRounds,      \* RTPStatistics.gameRounds
    rtpHistory,      \* RTPStatistics.rtpHistory
    criticalErrors,  \* RTPStatistics.criticalErrors
    totalBets,       \* RTPStatistics.totalBets
    totalPayouts,    \* RTPStatistics.totalPayouts
    perGameStats,    \* RTPStatistics.perGameStats
    perClientStats,  \* RTPStatistics.perClientStats
    report,          \* the report returned by the call just made (NoReport after any other call)
    lastCall,        \* the last method called on the engine and whether its argument was a well-formed round
    held,            \* a report that a caller of generateReport has kept, as the caller reads it now
    statistics,      \* RTPCalculator.statistics (Map gameId -> statistics), rtp/src/core/rtp-calc.js
    onlineStatistics,\* RTPCalculator.statistics of the calculator of src/core/rtp-stats.js (online update)
    answer,          \* the value returned by the calculator or analysis call just made
    gameTest,        \* one call of executeGameTest: its batches, the group in flight, its results
    totalSpins,      \* APIDataSource.totalSpins
    batchSize,       \* APIDataSource.batchSize
    currentSpinCount,\* APIDataSource.currentSpinCount
    dsGameRounds,    \* APIDataSource.gameRounds
    fetchPc,         \* position of fetchGameRounds: "idle", "loop", "returned"
    supplied,        \* the supplier's answers to this run's batch requests, in order
    fetchResult      \* the value fetchGameRounds returned

statsVars == <<config, gameData, gameRounds, rtpHistory, criticalErrors,
               totalBets, totalPayouts, perGameStats, perClientStats>>
engineVars == <<config, gameData, gameRounds, rtpHistory, criticalErrors,
                totalBets, totalPayouts, perGameStats, perClientStats, report, lastCall>>
fetchVars == <<totalSpins, batchSize, currentSpinCount, dsGameRounds, fetchPc,
               supplied, fetchResult>>
vars == <<config, gameData, gameRounds, rtpHistory, criticalErrors,
          totalBets, totalPayouts, perGameStats, perClientStats, report, lastCall,
          totalSpins, batchSize, currentSpinCount, dsGameRounds, fetchPc,
          supplied, fetchResult, held, statistics, onlineStatistics, answer, gameTest>>

calcVars == <<statistics, onlineStatistics, answer>>

\* ------------------------------------------------------------------ bounds
MaxRounds == 3
MaxSnapshots == 1
MaxRequests == 4
MaxTotalSpins == 3
MaxBatchSize == 2
MaxConcurrency == 2

\* ------------------------------------------------- exact rational numbers
RECURSIVE GCD(_, _)
GCD(a, b) == IF b = 0 THEN a ELSE GCD(b, a % b)

Abs(i) == IF i < 0 THEN -i ELSE i

Rat(n, d) ==
    LET s == IF d < 0 THEN -1 ELSE 1
        g == GCD(Abs(n), Abs(d))
    IN  [n |-> (s * n) \div g, d |-> (s * d) \div g]

Int2Rat(i) == [n |-> i, d |-> 1]
RatSub(a, b) == Rat(a.n * b.d - b.n * a.d, a.d * b.d)
RatMul(a, b) == Rat(a.n * b.n, a.d * b.d)
RatAdd(a, b) == Rat(a.n * b.d + b.n * a.d, a.d * b.d)
RatDiv(a, b) == Rat(a.n * b.d, a.d * b.n)
RatAbs(a) == [n |-> Abs(a.n), d |-> a.d]
RatLeq(a, b) == a.n * b.d <= b.n * a.d
RatGt(a, b) == a.n * b.d > b.n * a.d

\* Number.prototype.toFixed(digits) read back as a number: the nearest
\* multiple of 10^-digits, halves away from zero.
Pow10(digits) == IF digits = 2 THEN 100 ELSE 10000
RatToFixed(a, digits) ==
    LET p == Pow10(digits)
        q == (2 * Abs(a.n) * p + a.d) \div (2 * a.d)
    IN  Rat(IF a.n < 0 THEN -q ELSE q, p)

\* --------------------------------------------------- JavaScript values
\* Number(x.toFixed(digits)): NaN and the infinities come back as they are; the
\* rounding of a square root is not computed.
JsToFixed(x, digits) ==
    IF x.k = "number" THEN [k |-> "number", v |-> RatToFixed(x.v, digits)] ELSE x

JsNum(r) == [k |-> "number", v |-> r]
JsNaN == [k |-> "NaN", v |-> Int2Rat(0)]
JsUndefined == [k |-> "undefined", v |-> Int2Rat(0)]
JsBool(b) == [k |-> "boolean", v |-> Int2Rat(IF b THEN 1 ELSE 0)]

JsInfinity == [k |-> "Infinity", v |-> Int2Rat(0)]
JsNegInfinity == [k |-> "-Infinity", v |-> Int2Rat(0)]
JsNull == [k |-> "null", v |-> Int2Rat(0)]

\* a / b for numbers: 0 / 0 is NaN, x / 0 is +Infinity or -Infinity
JsDiv(a, b) ==
    IF b.n # 0 THEN JsNum(RatDiv(a, b))
    ELSE IF a.n = 0 THEN JsNaN
    ELSE IF a.n > 0 THEN JsInfinity ELSE JsNegInfinity

\* Math.sqrt(x): kept as the root of x, which is 0 exactly when x is 0
JsSqrt(x) ==
    IF x.k = "number" /\ x.v.n # 0 THEN [k |-> "sqrt", v |-> x.v] ELSE x

\* Math.min(x, r) and Math.max(x, r) for a number r and the running value x
MathMin(x, r) ==
    IF x.k = "number" /\ RatLeq(x.v, r) THEN x ELSE JsNum(r)
MathMax(x, r) ==
    IF x.k = "number" /\ RatLeq(r, x.v) THEN x ELSE JsNum(r)

\* ToNumber: an object without a numeric primitive value and undefined give NaN.
ToNumber(x) ==
    CASE x.k = "number" -> x
      [] x.k = "boolean" -> JsNum(x.v)
      [] OTHER -> JsNaN

\* ToBoolean
Truthy(x) ==
    CASE x.k = "number" -> x.v.n # 0
      [] x.k = "boolean" -> x.v.n # 0
      [] x.k = "object" -> TRUE
      [] OTHER -> FALSE

JsSub(x, y) ==
    LET a == ToNumber(x)
        b == ToNumber(y)
    IN  IF a.k = "NaN" \/ b.k = "NaN" THEN JsNaN ELSE JsNum(RatSub(a.v, b.v))

JsAbs(x) ==
    LET a == ToNumber(x)
    IN  IF a.k = "NaN" THEN JsNaN ELSE JsNum(RatAbs(a.v))

\* x <= y and x > y: false as soon as one side is NaN
JsLeq(x, y) ==
    LET a == ToNumber(x)
        b == ToNumber(y)
    IN  a.k # "NaN" /\ b.k # "NaN" /\ RatLeq(a.v, b.v)

JsGt(x, y) ==
    LET a == ToNumber(x)
        b == ToNumber(y)
    IN  a.k # "NaN" /\ b.k # "NaN" /\ RatGt(a.v, b.v)

\* property read x.name: undefined unless x is an object that has the property
JsGet(x, name) ==
    IF x.k = "object" /\ name \in DOMAIN x THEN x[name] ELSE JsUndefined

\* ------------------------------------------------------------ rounds
NoId == ""
Games == {"g1", "g2"}
Clients == {"c1", "c2"}
Amounts == {<<100, 96>>, <<50, 50>>, <<0, 5>>}

GameRound(b, p, g, c) ==
    [present |-> TRUE, betType |-> "number", betAmount |-> b,
     payoutType |-> "number", payout |-> p, gameId |-> g, clientId |-> c]

\* the rounds of the concrete scenario of spec section 8, besides (100, 96)
ScenarioRounds == {GameRound(50, 48, "g1", "c1"), GameRound(200, 192, "g1", "c1")}

ValidRounds ==
    {GameRound(a[1], a[2], g, c) : a \in Amounts, g \in Games, c \in Clients}
        \cup ScenarioRounds

InvalidRounds ==
    LET r == GameRound(1, 1, "g1", "c1")
    IN  { [r EXCEPT !.present = FALSE],
          [r EXCEPT !.betType = "undefined"],
          [r EXCEPT !.betType = "string"],
          [r EXCEPT !.payoutType = "undefined"],
          [r EXCEPT !.payoutType = "string"],
          [r EXCEPT !.gameId = NoId],
          [r EXCEPT !.clientId = NoId] }

\* ----------------------------------------------------- RTPCalculator
\* The argument of a calculator call: a game id (string) or an array of rounds.
StringArg(s) == [k |-> "string", s |-> s, items |-> <<>>]
ArrayArg(items) == [k |-> "array", s |-> NoId, items |-> items]

\* this.gameData.get(key) || [] : Map keys are the game ids stored by
\* addRoundData; an array is never a key of the Map.
MapGetOrEmpty(map, key) ==
    IF key.k = "string" /\ key.s \in DOMAIN map THEN map[key.s] ELSE <<>>

RECURSIVE SumField(_, _)
SumField(rounds, field) ==
    IF rounds = <<>> THEN 0
    ELSE rounds[1][field] + SumField(Tail(rounds), field)

\* (payouts / bets) * 100 for bets # 0
Percent(payouts, bets) == RatMul(Rat(payouts, bets), Int2Rat(100))

RTPResult(actualRTP, bets, payouts, count) ==
    [k |-> "object", v |-> Int2Rat(0),
     actualRTP |-> JsNum(actualRTP), totalBets |-> JsNum(Int2Rat(bets)),
     totalPayouts |-> JsNum(Int2Rat(payouts)), roundCount |-> JsNum(Int2Rat(count))]

calculateActualRTP(map, gameId) ==
    LET rounds == MapGetOrEmpty(map, gameId)
        bets == SumField(rounds, "betAmount")
        payouts == SumField(rounds, "payout")
    IN  IF Len(rounds) = 0 THEN RTPResult(Int2Rat(0), 0, 0, 0)
        ELSE RTPResult(IF bets = 0 THEN Int2Rat(0)
                       ELSE RatToFixed(Percent(payouts, bets), 4),
                       bets, payouts, Len(rounds))

validateRTP(actualRTP, targetRTP, tolerance) ==
    JsBool(JsLeq(JsAbs(JsSub(actualRTP, targetRTP)), tolerance))

\* ----------------------------------------------------- RTPStatistics
ConfigKeys == {"overallTargetRTP", "overallTolerance", "criticalToleranceFactor",
               "minRoundsForRTPValidation", "maxLosingStreak", "gameSpecificRTPs"}

DefaultConfig ==
    [overallTargetRTP |-> Int2Rat(96),
     overallTolerance |-> Rat(1, 2),
     criticalToleranceFactor |-> Int2Rat(2),
     minRoundsForRTPValidation |-> 100,
     maxLosingStreak |-> 50,
     gameSpecificRTPs |-> [g \in {} |-> Int2Rat(0)]]

\* { <defaults>, ...config }: every key the caller passed wins over the default.
MergeConfig(passed) ==
    [key \in ConfigKeys |-> IF key \in DOMAIN passed THEN passed[key] ELSE DefaultConfig[key]]

PassedConfigs == { [minRoundsForRTPValidation |-> 2, maxLosingStreak |-> m] : m \in {1, 2} }

NewStats == [totalBets |-> 0, totalPayouts |-> 0, rounds |-> 0, currentLosingStreak |-> 0]

NoReport == [generated |-> FALSE]
NoCall == [op |-> "constructor", ok |-> TRUE, raised |-> FALSE]
NoHeld == [kept |-> FALSE, live |-> FALSE, report |-> NoReport]
NoAnswer == [op |-> "none"]
NoGameTest == [pc |-> "idle"]

\* no calculator of its own is in use
NoCalculatorUse ==
    /\ statistics = [g \in {} |-> <<>>]
    /\ onlineStatistics = [g \in {} |-> <<>>]
    /\ answer = NoAnswer
Call(op, ok, raised) == [op |-> op, ok |-> ok, raised |-> raised]

\* The well-formedness the engine requires of a round (spec section 7).
WellFormed(r) ==
    /\ r.present
    /\ r.betType = "number"
    /\ r.payoutType = "number"
    /\ r.gameId # NoId
    /\ r.clientId # NoId

flagCriticalError(errors, rounds, type, scope, message) ==
    Append(errors, [type |-> type, scope |-> scope,
                    roundCount |-> Len(rounds), message |-> message])

\* the round is added to the sums of the scope but not to its round count
Accumulate_uncounted(stats, id, gameRound) ==
    LET old == IF id \in DOMAIN stats THEN stats[id] ELSE NewStats
        new == [old EXCEPT !.totalBets = @ + gameRound.betAmount,
                           !.totalPayouts = @ + gameRound.payout]
    IN  [k \in DOMAIN stats \cup {id} |-> IF k = id THEN new ELSE stats[k]]

\* stats[id] after "if (!stats[id]) stats[id] = {zeros}" and the three updates
Accumulate(stats, id, gameRound) ==
    LET old == IF id \in DOMAIN stats THEN stats[id] ELSE NewStats
        new == [old EXCEPT !.totalBets = @ + gameRound.betAmount,
                           !.totalPayouts = @ + gameRound.payout,
                           !.rounds = @ + 1]
    IN  [k \in DOMAIN stats \cup {id} |-> IF k = id THEN new ELSE stats[k]]

\* flags the client's streak as soon as a loss makes it reach the threshold
trackLosingStreaks_eager(gameRound, rounds, games, clients, errors) ==
    LET isLoss == gameRound.payout < gameRound.betAmount
        c == gameRound.clientId
        g == gameRound.gameId
        streak == clients[c].currentLosingStreak
        errors1 ==
            IF isLoss /\ streak + 1 >= config.maxLosingStreak
            THEN flagCriticalError(errors, rounds, "Losing Streak Anomaly for Client", c,
                                   <<Int2Rat(streak + 1), Int2Rat(config.maxLosingStreak)>>)
            ELSE errors
        clients1 == [clients EXCEPT ![c].currentLosingStreak = IF isLoss THEN @ + 1 ELSE 0]
        games1 == [games EXCEPT ![g].currentLosingStreak = IF isLoss THEN @ + 1 ELSE 0]
    IN  [perGameStats |-> games1, perClientStats |-> clients1, criticalErrors |-> errors1]

\* a loss starts the anomaly log afresh
trackLosingStreaks_forgetting(gameRound, rounds, games, clients, errors) ==
    LET isLoss == gameRound.payout < gameRound.betAmount
        c == gameRound.clientId
        g == gameRound.gameId
        streak == clients[c].currentLosingStreak
        errors1 ==
            IF isLoss THEN <<>>
            ELSE IF streak >= config.maxLosingStreak
            THEN flagCriticalError(errors, rounds, "Losing Streak Anomaly for Client", c,
                                   <<Int2Rat(streak), Int2Rat(config.maxLosingStreak)>>)
            ELSE errors
        clients1 == [clients EXCEPT ![c].currentLosingStreak = IF isLoss THEN @ + 1 ELSE 0]
        games1 == [games EXCEPT ![g].currentLosingStreak = IF isLoss THEN @ + 1 ELSE 0]
    IN  [perGameStats |-> games1, perClientStats |-> clients1, criticalErrors |-> errors1]

\* _trackLosingStreaks, on the stats already updated with the round
trackLosingStreaks(gameRound, rounds, games, clients, errors) ==
    LET isLoss == gameRound.payout < gameRound.betAmount
        c == gameRound.clientId
        g == gameRound.gameId
        streak == clients[c].currentLosingStreak
        errors1 ==
            IF ~isLoss /\ streak >= config.maxLosingStreak
            THEN flagCriticalError(errors, rounds, "Losing Streak Anomaly for Client", c,
                                   <<Int2Rat(streak), Int2Rat(config.maxLosingStreak)>>)
            ELSE errors
        clients1 == [clients EXCEPT ![c].currentLosingStreak = IF isLoss THEN @ + 1 ELSE 0]
        games1 == [games EXCEPT ![g].currentLosingStreak = IF isLoss THEN @ + 1 ELSE 0]
    IN  [perGameStats |-> games1, perClientStats |-> clients1, criticalErrors |-> errors1]

\* the check of line 32 without its clientId part
isInvalidRound_noClient(gameRound) ==
    \/ ~gameRound.present
    \/ gameRound.betType # "number"
    \/ gameRound.payoutType # "number"
    \/ gameRound.gameId = NoId

\* if (!gameRound || typeof betAmount !== 'number' || typeof payout !== 'number'
\*     || !gameId || !clientId)
isInvalidRound(gameRound) ==
    \/ ~gameRound.present
    \/ gameRound.betType # "number"
    \/ gameRound.payoutType # "number"
    \/ gameRound.gameId = NoId
    \/ gameRound.clientId = NoId

addGameRound(gameRound) ==
    IF isInvalidRound(gameRound)
    THEN /\ lastCall' = Call("addGameRound", WellFormed(gameRound), FALSE)
         /\ report' = NoReport
         /\ UNCHANGED statsVars
    ELSE LET rounds1 == Append(gameRounds, gameRound)
             games1 == Accumulate(perGameStats, gameRound.gameId, gameRound)
             clients1 == Accumulate(perClientStats, gameRound.clientId, gameRound)
             t == trackLosingStreaks(gameRound, rounds1, games1, clients1, criticalErrors)
         IN  /\ gameRounds' = rounds1
             /\ totalBets' = totalBets + gameRound.betAmount
             /\ totalPayouts' = totalPayouts + gameRound.payout
             /\ perGameStats' = t.perGameStats
             /\ perClientStats' = t.perClientStats
             /\ criticalErrors' = t.criticalErrors
             /\ report' = NoReport
             /\ lastCall' = Call("addGameRound", WellFormed(gameRound), FALSE)
             /\ UNCHANGED <<config, gameData, rtpHistory>>

\* payouts / bets without the factor 100
getCurrentCumulativeRTP_ratio ==
    IF totalBets = 0 THEN Int2Rat(0) ELSE Rat(totalPayouts, totalBets)

getCurrentCumulativeRTP ==
    IF totalBets = 0 THEN Int2Rat(0) ELSE Percent(totalPayouts, totalBets)

\* for (const id in stats): own keys in insertion order, which is the order
\* in which the ids first occur in gameRounds.
RECURSIVE OwnKeys(_, _, _, _)
OwnKeys(rounds, field, stats, seen) ==
    IF rounds = <<>> THEN <<>>
    ELSE LET id == rounds[1][field]
         IN  IF id \in seen \/ id \notin DOMAIN stats
             THEN OwnKeys(Tail(rounds), field, stats, seen)
             ELSE <<id>> \o OwnKeys(Tail(rounds), field, stats, seen \cup {id})

\* every game is held to the overall target
targetOf_overall(gameId) == config.overallTargetRTP

\* config.gameSpecificRTPs[gameId] || config.overallTargetRTP
targetOf(gameId) ==
    IF gameId \in DOMAIN config.gameSpecificRTPs /\ config.gameSpecificRTPs[gameId].n # 0
    THEN config.gameSpecificRTPs[gameId]
    ELSE config.overallTargetRTP

criticalBand == RatMul(config.overallTolerance, config.criticalToleranceFactor)

\* config.overallTolerance * 3, the band of the per-client check
clientBand == RatMul(config.overallTolerance, Int2Rat(3))

Totals(stats) == <<[betAmount |-> stats.totalBets, payout |-> stats.totalPayouts]>>

\* the validation gives the deviation and the validity of the cumulative RTP,
\* while the RTP handed to the message is still the calculator's result object
overallCheck_documented ==
    LET overallRTP == calculateActualRTP(gameData, ArrayArg(gameRounds))
        deviation == JsNum(RatAbs(RatSub(getCurrentCumulativeRTP, config.overallTargetRTP)))
        isValid == JsBool(RatLeq(deviation.v, config.overallTolerance))
    IN  [rtp |-> overallRTP, target |-> config.overallTargetRTP,
         deviation |-> deviation, isValid |-> isValid, rounds |-> Len(gameRounds),
         flag |-> ~Truthy(isValid) /\ JsGt(deviation, JsNum(criticalBand))]

\* snapshotRTP, the overall scope: the values computed and the decision to flag
overallCheck ==
    LET overallRTP == calculateActualRTP(gameData, ArrayArg(gameRounds))
        overallValidation == validateRTP(overallRTP, JsNum(config.overallTargetRTP), JsUndefined)
        deviation == JsGet(overallValidation, "deviation")
        isValid == JsGet(overallValidation, "isValid")
    IN  [rtp |-> overallRTP, target |-> config.overallTargetRTP,
         deviation |-> deviation, isValid |-> isValid, rounds |-> Len(gameRounds),
         flag |-> ~Truthy(isValid) /\ JsGt(deviation, JsNum(criticalBand))]

\* snapshotRTP, one game of the per-game loop
gameCheck(gameId) ==
    LET gameStats == perGameStats[gameId]
        gameSpecificTargetRTP == targetOf(gameId)
        gameRTP == calculateActualRTP(gameData, ArrayArg(Totals(gameStats)))
        gameValidation == validateRTP(gameRTP, JsNum(gameSpecificTargetRTP), JsUndefined)
        deviation == JsGet(gameValidation, "deviation")
        isValid == JsGet(gameValidation, "isValid")
    IN  [rtp |-> gameRTP, target |-> gameSpecificTargetRTP,
         deviation |-> deviation, isValid |-> isValid, rounds |-> gameStats.rounds,
         flag |-> /\ gameStats.rounds >= config.minRoundsForRTPValidation
                  /\ ~Truthy(isValid)
                  /\ JsGt(deviation, JsNum(criticalBand))]

\* the client check without the sample-size guard, on the RTP of the client's totals
clientCheck_unguarded(clientId) ==
    LET clientStats == perClientStats[clientId]
        clientRTP == JsNum(IF clientStats.totalBets = 0 THEN Int2Rat(0)
                           ELSE Percent(clientStats.totalPayouts, clientStats.totalBets))
        clientDeviation == JsAbs(JsSub(clientRTP, JsNum(config.overallTargetRTP)))
    IN  [rtp |-> clientRTP, target |-> config.overallTargetRTP,
         deviation |-> clientDeviation, isValid |-> JsUndefined, rounds |-> clientStats.rounds,
         flag |-> JsGt(clientDeviation, JsNum(clientBand))]

\* snapshotRTP, one client of the per-client loop
clientCheck(clientId) ==
    LET clientStats == perClientStats[clientId]
        clientRTP == calculateActualRTP(gameData, ArrayArg(Totals(clientStats)))
        clientDeviation == JsAbs(JsSub(clientRTP, JsNum(config.overallTargetRTP)))
    IN  [rtp |-> clientRTP, target |-> config.overallTargetRTP,
         deviation |-> clientDeviation, isValid |-> JsUndefined, rounds |-> clientStats.rounds,
         flag |-> /\ clientStats.rounds >= config.minRoundsForRTPValidation
                  /\ JsGt(clientDeviation, JsNum(clientBand))]

\* One "if (...) this._flagCriticalError(type, message)" of snapshotRTP.  The
\* message calls toFixed(2) on the RTP and on the deviation, which raises a
\* TypeError when one of them is not a number; the loop is then abandoned.
flagIf(acc, check, type, scope) ==
    IF acc.raised \/ ~check.flag THEN acc
    ELSE IF check.rtp.k # "number" \/ check.deviation.k # "number"
         THEN [acc EXCEPT !.raised = TRUE]
         ELSE [acc EXCEPT !.errors =
                   flagCriticalError(@, gameRounds, type, scope,
                       <<RatToFixed(check.rtp.v, 2), RatToFixed(check.target, 2),
                         RatToFixed(check.deviation.v, 2), Int2Rat(check.rounds)>>)]

RECURSIVE snapshotGames(_, _)
snapshotGames(keys, acc) ==
    IF keys = <<>> THEN acc
    ELSE snapshotGames(Tail(keys),
                       flagIf(acc, gameCheck(keys[1]), "Game RTP Deviation", keys[1]))

RECURSIVE snapshotClients(_, _)
snapshotClients(keys, acc) ==
    IF keys = <<>> THEN acc
    ELSE snapshotClients(Tail(keys),
                         flagIf(acc, clientCheck(keys[1]), "Client RTP Anomaly", keys[1]))

snapshotRTP ==
    IF Len(gameRounds) < config.minRoundsForRTPValidation
    THEN /\ lastCall' = Call("snapshotRTP", TRUE, FALSE)
         /\ report' = NoReport
         /\ UNCHANGED statsVars
    ELSE LET o == overallCheck
             history1 == Append(rtpHistory,
                                [roundCount |-> Len(gameRounds), rtp |-> o.rtp,
                                 deviation |-> o.deviation, isWithinTolerance |-> o.isValid])
             a1 == flagIf([errors |-> criticalErrors, raised |-> FALSE], o,
                          "Overall RTP Deviation", "overall")
             a2 == snapshotGames(OwnKeys(gameRounds, "gameId", perGameStats, {}), a1)
             a3 == snapshotClients(OwnKeys(gameRounds, "clientId", perClientStats, {}), a2)
         IN  /\ rtpHistory' = history1
             /\ criticalErrors' = a3.errors
             /\ report' = NoReport
             /\ lastCall' = Call("snapshotRTP", TRUE, a3.raised)
             /\ UNCHANGED <<config, gameData, gameRounds, totalBets, totalPayouts,
                            perGameStats, perClientStats>>

\* (stats.totalBets > 0) ? (stats.totalPayouts / stats.totalBets) * 100 : 0, then toFixed(2)
summaryRTP(stats) ==
    RatToFixed(IF stats.totalBets > 0 THEN Percent(stats.totalPayouts, stats.totalBets)
               ELSE Int2Rat(0), 2)

reportOf ==
    LET finalOverallRTP == getCurrentCumulativeRTP
        finalOverallDeviation == RatAbs(RatSub(finalOverallRTP, config.overallTargetRTP))
    IN  [generated |-> TRUE,
         totalRoundsSimulated |-> Len(gameRounds),
         overallTargetRTP |-> config.overallTargetRTP,
         overallTolerance |-> config.overallTolerance,
         finalOverallActualRTP |-> finalOverallRTP,
         finalOverallDeviation |-> finalOverallDeviation,
         isFinalOverallRTPValid |-> RatLeq(finalOverallDeviation, config.overallTolerance),
         criticalErrorCount |-> Len(criticalErrors),
         criticalErrorsDetails |-> criticalErrors,
         rtpHistorySnapshots |-> rtpHistory,
         perGameSummary |->
             [g \in DOMAIN perGameStats |->
                 [rounds |-> perGameStats[g].rounds,
                  actualRTP |-> summaryRTP(perGameStats[g]),
                  targetRTP |-> RatToFixed(targetOf(g), 2),
                  losingStreak |-> perGameStats[g].currentLosingStreak]],
         perClientSummary |->
             [c \in DOMAIN perClientStats |->
                 [rounds |-> perClientStats[c].rounds,
                  actualRTP |-> summaryRTP(perClientStats[c]),
                  losingStreak |-> perClientStats[c].currentLosingStreak]]]

\* handing out the report empties the anomaly log
generateReport_draining ==
    /\ report' = reportOf
    /\ lastCall' = Call("generateReport", TRUE, FALSE)
    /\ criticalErrors' = <<>>
    /\ UNCHANGED <<config, gameData, gameRounds, rtpHistory, totalBets, totalPayouts,
                   perGameStats, perClientStats>>

generateReport ==
    /\ report' = reportOf
    /\ lastCall' = Call("generateReport", TRUE, FALSE)
    /\ UNCHANGED statsVars

\* the snapshot history survives the reset
reset_keepHistory ==
    /\ gameRounds' = <<>>
    /\ criticalErrors' = <<>>
    /\ totalBets' = 0
    /\ totalPayouts' = 0
    /\ perGameStats' = [g \in {} |-> NewStats]
    /\ perClientStats' = [c \in {} |-> NewStats]
    /\ report' = NoReport
    /\ lastCall' = Call("reset", TRUE, FALSE)
    /\ UNCHANGED <<config, gameData, rtpHistory>>

reset ==
    /\ gameRounds' = <<>>
    /\ rtpHistory' = <<>>
    /\ criticalErrors' = <<>>
    /\ totalBets' = 0
    /\ totalPayouts' = 0
    /\ perGameStats' = [g \in {} |-> NewStats]
    /\ perClientStats' = [c \in {} |-> NewStats]
    /\ report' = NoReport
    /\ lastCall' = Call("reset", TRUE, FALSE)
    /\ UNCHANGED <<config, gameData>>

\* stats.name for one entry of perGameStats or perClientStats
StatsGet(stats, name) ==
    IF name \in DOMAIN stats THEN JsNum(Int2Rat(stats[name])) ELSE JsUndefined

\* new RTPStatistics(passed)
Constructed(passed) ==
    /\ config = MergeConfig(passed)
    /\ gameData = [g \in {} |-> <<>>]
    /\ gameRounds = <<>>
    /\ rtpHistory = <<>>
    /\ criticalErrors = <<>>
    /\ totalBets = 0
    /\ totalPayouts = 0
    /\ perGameStats = [g \in {} |-> NewStats]
    /\ perClientStats = [c \in {} |-> NewStats]
    /\ report = NoReport
    /\ lastCall = NoCall

\* the engine on its own: no data source is in use
Init ==
    /\ \E passed \in PassedConfigs : Constructed(passed)
    /\ totalSpins = 0
    /\ batchSize = 0
    /\ currentSpinCount = 0
    /\ dsGameRounds = <<>>
    /\ fetchPc = "idle"
    /\ supplied = <<>>
    /\ fetchResult = <<>>
    /\ held = NoHeld
    /\ NoCalculatorUse
    /\ gameTest = NoGameTest

AddGameRound ==
    /\ Len(gameRounds) < MaxRounds
    /\ \E gameRound \in ValidRounds \cup InvalidRounds : addGameRound(gameRound)
    /\ UNCHANGED <<fetchVars, held, calcVars, gameTest>>

SnapshotRTP ==
    /\ Len(rtpHistory) < MaxSnapshots
    /\ snapshotRTP
    /\ UNCHANGED <<fetchVars, held, calcVars, gameTest>>

GenerateReport ==
    /\ generateReport
    /\ UNCHANGED <<fetchVars, held, calcVars, gameTest>>

Reset ==
    /\ reset
    /\ UNCHANGED <<fetchVars, held, calcVars, gameTest>>

Next == AddGameRound \/ SnapshotRTP \/ GenerateReport \/ Reset

Spec == Init /\ [][Next]_vars

\* ----------------------------------------------------- APIDataSource
Min(a, b) == IF a < b THEN a ELSE b

\* What one call of executeSpinBatch gives fetchGameRounds: an object with a
\* rounds array ("rounds"), a bare array of rounds ("array", which is what
\* executeSpinBatch of api-client.js resolves to), nothing ("undefined"), or a
\* rejection ("error").  rounds is the value's rounds property when that is an
\* array, items are the elements of a bare array.  The rounds of request number
\* req are <<req, 1>>, <<req, 2>>, ...; the supplier may deliver fewer or more
\* rounds than asked.
BatchRounds(req, n) == [i \in 1..n |-> <<req, i>>]
BatchResults(req, asked) ==
    {[kind |-> "rounds", rounds |-> BatchRounds(req, n), items |-> <<>>] : n \in 0..(asked + 1)}
        \cup {[kind |-> "array", rounds |-> <<>>, items |-> BatchRounds(req, n)] : n \in 0..asked}
        \cup {[kind |-> k, rounds |-> <<>>, items |-> <<>>] : k \in {"undefined", "error"}}

\* batchResult && Array.isArray(batchResult.rounds)
isRoundsResponse(batchResult) == batchResult.kind = "rounds"

\* the catch block rethrows instead of breaking out of the loop
catchBatchError_rethrow == [pc |-> "threw", result |-> <<>>]

\* the catch block goes on with the next iteration instead of breaking out
catchBatchError_retry == [pc |-> "loop", result |-> fetchResult]

\* catch (error) { logError(...); break; } followed by return this.gameRounds
catchBatchError == [pc |-> "returned", result |-> dsGameRounds]

\* new APIDataSource({totalSpins: total, batchSize: size})
DataSourceConstructed(total, size) ==
    /\ totalSpins = total
    /\ batchSize = size
    /\ currentSpinCount = 0
    /\ dsGameRounds = <<>>
    /\ fetchPc = "idle"
    /\ supplied = <<>>
    /\ fetchResult = <<>>

\* every request asks for a full batch
spinsToFetch_batchSize == batchSize

\* Math.min(this.batchSize, this.totalSpins - this.currentSpinCount)
spinsToFetch == Min(batchSize, totalSpins - currentSpinCount)

\* one iteration of the while loop of fetchGameRounds, given the supplier's answer
fetchBatch(batchResult) ==
        /\ supplied' = Append(supplied, [asked |-> spinsToFetch, kind |-> batchResult.kind,
                                          rounds |-> batchResult.rounds,
                                          items |-> batchResult.items])
        /\ IF batchResult.kind # "error" /\ isRoundsResponse(batchResult)
           THEN /\ dsGameRounds' = dsGameRounds \o batchResult.rounds
                /\ currentSpinCount' = currentSpinCount + Len(batchResult.rounds)
                /\ UNCHANGED <<fetchPc, fetchResult>>
           ELSE /\ fetchPc' = catchBatchError.pc
                /\ fetchResult' = catchBatchError.result
                /\ UNCHANGED <<dsGameRounds, currentSpinCount>>
        /\ UNCHANGED <<totalSpins, batchSize>>

\* the data source is used as in runRTPAudit: constructed, then fetched once
FetchStart ==
    /\ fetchPc = "idle"
    /\ fetchPc' = "loop"
    /\ UNCHANGED <<totalSpins, batchSize, currentSpinCount, dsGameRounds, supplied, fetchResult>>
    /\ UNCHANGED <<engineVars, held, calcVars, gameTest>>

FetchBatch ==
    /\ fetchPc = "loop"
    /\ currentSpinCount < totalSpins
    /\ Len(supplied) < MaxRequests
    /\ \E batchResult \in BatchResults(Len(supplied) + 1, spinsToFetch) :
           fetchBatch(batchResult)
    /\ UNCHANGED <<engineVars, held, calcVars, gameTest>>

\* the loop condition fails: return this.gameRounds
FetchReturn ==
    /\ fetchPc = "loop"
    /\ ~(currentSpinCount < totalSpins)
    /\ fetchPc' = "returned"
    /\ fetchResult' = dsGameRounds
    /\ UNCHANGED <<totalSpins, batchSize, currentSpinCount, dsGameRounds, supplied>>
    /\ UNCHANGED <<engineVars, held, calcVars, gameTest>>

InitFetch ==
    /\ Constructed([minRoundsForRTPValidation |-> 2])
    /\ \E total \in 1..MaxTotalSpins, size \in 1..MaxBatchSize :
           DataSourceConstructed(total, size)
    /\ held = NoHeld
    /\ NoCalculatorUse
    /\ gameTest = NoGameTest

NextFetch == FetchStart \/ FetchBatch \/ FetchReturn

SpecFetch == InitFetch /\ [][NextFetch]_vars

\* property read on the array that fetchGameRounds returns
ArrayGet(array, name) ==
    IF name = "length" THEN JsNum(Int2Rat(Len(array))) ELSE JsUndefined

\* ------------------------------------------- RTPStatistics, other configurations
\* The engine under other configurations a caller may pass to the constructor:
\* a minimum sample of 0, a critical factor above the client band's 3, and a
\* per-game target for g1 only.
ConfigsToTry ==
    { [minRoundsForRTPValidation |-> 0],
      [minRoundsForRTPValidation |-> 2, criticalToleranceFactor |-> Int2Rat(4)],
      [minRoundsForRTPValidation |-> 2,
       gameSpecificRTPs |-> [g \in {"g1"} |-> Int2Rat(94)]] }

InitConfigured ==
    /\ \E passed \in ConfigsToTry : Constructed(passed)
    /\ DataSourceConstructed(0, 0)
    /\ held = NoHeld
    /\ NoCalculatorUse
    /\ gameTest = NoGameTest

SpecConfigured == InitConfigured /\ [][Next]_vars

\* --------------------------------------------- RTPStatistics, a report kept
\* generateReport puts this.criticalErrors and this.rtpHistory themselves into
\* the report (lines 179-180).  A caller that keeps the report holds these two
\* arrays for as long as the engine uses them, which is until reset() assigns
\* new ones: held.live.  Seen is the kept report as its holder reads it once the
\* engine's arrays have become errors and history.
Seen(h, errors, history) ==
    IF h.kept /\ h.live
    THEN [h EXCEPT !.report.criticalErrorsDetails = errors,
                   !.report.rtpHistorySnapshots = history]
    ELSE h

HeldRounds ==
    {GameRound(100, 96, "g1", "c1"), GameRound(50, 50, "g1", "c1"),
     GameRound(50, 50, "g2", "c2")}

\* const r = stats.generateReport(), and r is kept
HeldGenerate ==
    /\ ~held.kept
    /\ generateReport
    /\ held' = [kept |-> TRUE, live |-> TRUE, report |-> reportOf]
    /\ UNCHANGED <<fetchVars, calcVars, gameTest>>

HeldAddGameRound ==
    /\ Len(gameRounds) < MaxRounds
    /\ \E gameRound \in HeldRounds : addGameRound(gameRound)
    /\ held' = Seen(held, criticalErrors', rtpHistory')
    /\ UNCHANGED <<fetchVars, calcVars, gameTest>>

HeldSnapshotRTP ==
    /\ Len(rtpHistory) < MaxSnapshots
    /\ snapshotRTP
    /\ held' = Seen(held, criticalErrors', rtpHistory')
    /\ UNCHANGED <<fetchVars, calcVars, gameTest>>

HeldReset ==
    /\ reset
    /\ held' = [held EXCEPT !.live = FALSE]
    /\ UNCHANGED <<fetchVars, calcVars, gameTest>>

\* the holder empties the anomaly list of its report: r.criticalErrorsDetails.length = 0
HeldMutate ==
    /\ held.kept
    /\ held.report.criticalErrorsDetails # <<>>
    /\ held' = [held EXCEPT !.report.criticalErrorsDetails = <<>>]
    /\ criticalErrors' = IF held.live THEN <<>> ELSE criticalErrors
    /\ report' = NoReport
    /\ lastCall' = Call("mutateReport", TRUE, FALSE)
    /\ UNCHANGED <<config, gameData, gameRounds, rtpHistory, totalBets, totalPayouts,
                   perGameStats, perClientStats>>
    /\ UNCHANGED <<fetchVars, calcVars, gameTest>>

NextHeld == HeldGenerate \/ HeldAddGameRound \/ HeldSnapshotRTP \/ HeldReset \/ HeldMutate

SpecHeld == Init /\ [][NextHeld]_vars

\* ------------------------------------------ RTPCalculator used on its own
\* Two calculators are fed the same rounds: the calculator of
\* rtp/src/core/rtp-calc.js (statistics) and the calculator with the online
\* update of src/core/rtp-stats.js (onlineStatistics).  gameData is the Map of
\* the rounds per game, which both keep in the same way.
RECURSIVE RatSum(_)
RatSum(values) ==
    IF values = <<>> THEN Int2Rat(0) ELSE RatAdd(values[1], RatSum(Tail(values)))

\* sum of Math.pow(val - mean, 2)
RECURSIVE SumSquares(_, _)
SumSquares(values, mean) ==
    IF values = <<>> THEN Int2Rat(0)
    ELSE RatAdd(RatMul(RatSub(values[1], mean), RatSub(values[1], mean)),
                SumSquares(Tail(values), mean))

CalcAmounts == Amounts \cup {<<200, 100>>}
CalcRounds == {GameRound(a[1], a[2], g, "c1") : a \in CalcAmounts, g \in Games}

initializeStatistics ==
    [totalBets |-> 0, totalPayouts |-> 0, roundCount |-> 0, rtpValues |-> <<>>,
     meanRTP |-> Int2Rat(0), standardDeviation |-> JsNum(Int2Rat(0)),
     variance |-> Int2Rat(0), minRTP |-> JsInfinity, maxRTP |-> JsNegInfinity,
     currentLosingStreak |-> 0, longestLosingStreak |-> 0]

\* updateStatistics of rtp/src/core/rtp-calc.js, on the statistics of one game
updateStatistics(stats, betAmount, payout) ==
    LET roundRTP == IF betAmount = 0 THEN Int2Rat(0) ELSE Percent(payout, betAmount)
        rtpValues == Append(stats.rtpValues, roundRTP)
        bets == stats.totalBets + betAmount
        payouts == stats.totalPayouts + payout
        roundCount == stats.roundCount + 1
        current == IF payout < betAmount THEN stats.currentLosingStreak + 1 ELSE 0
        mean == RatDiv(RatSum(rtpValues), Int2Rat(Len(rtpValues)))
        variance == IF roundCount >= 2
                    THEN RatDiv(SumSquares(rtpValues, mean), Int2Rat(Len(rtpValues) - 1))
                    ELSE stats.variance
    IN  [totalBets |-> bets, totalPayouts |-> payouts, roundCount |-> roundCount,
         rtpValues |-> rtpValues,
         meanRTP |-> IF bets = 0 THEN Int2Rat(0) ELSE Percent(payouts, bets),
         standardDeviation |-> IF roundCount >= 2 THEN JsSqrt(JsNum(variance))
                               ELSE stats.standardDeviation,
         variance |-> variance,
         minRTP |-> MathMin(stats.minRTP, roundRTP),
         maxRTP |-> MathMax(stats.maxRTP, roundRTP),
         currentLosingStreak |-> current,
         longestLosingStreak |-> IF current > stats.longestLosingStreak THEN current
                                 ELSE stats.longestLosingStreak]

initializeStatisticsOnline ==
    [meanRTP |-> Int2Rat(0), variance |-> Int2Rat(0),
     standardDeviation |-> JsNum(Int2Rat(0)),
     minRTP |-> JsInfinity, maxRTP |-> JsNegInfinity,
     sumSquaredDeviations |-> Int2Rat(0)]

\* updateStatistics of src/core/rtp-stats.js (Welford's update), on the
\* statistics of one game; n is the number of rounds stored for the game,
\* the round just added included
updateStatisticsOnline(stats, n, betAmount, payout) ==
    IF betAmount > 0
    THEN LET roundRTP == Percent(payout, betAmount)
             oldMean == stats.meanRTP
             meanRTP == RatAdd(oldMean, RatDiv(RatSub(roundRTP, oldMean), Int2Rat(n)))
             sumSquaredDeviations ==
                 RatAdd(stats.sumSquaredDeviations,
                        RatMul(RatSub(roundRTP, oldMean), RatSub(roundRTP, meanRTP)))
             variance == IF n > 1 THEN RatDiv(sumSquaredDeviations, Int2Rat(n - 1))
                         ELSE stats.variance
         IN  [meanRTP |-> meanRTP, variance |-> variance,
              standardDeviation |-> IF n > 1 THEN JsSqrt(JsNum(variance))
                                    ELSE stats.standardDeviation,
              minRTP |-> MathMin(stats.minRTP, roundRTP),
              maxRTP |-> MathMax(stats.maxRTP, roundRTP),
              sumSquaredDeviations |-> sumSquaredDeviations]
    ELSE stats

\* map.get(key) after "if (!map.has(key)) map.set(key, initial)"
MapGetOrSet(map, key, initial) == IF key \in DOMAIN map THEN map[key] ELSE initial

\* map after map.set(key, value), or after a change of the entry held under key
MapSet(map, key, value) ==
    [g \in DOMAIN map \cup {key} |-> IF g = key THEN value ELSE map[g]]

\* addRoundData(roundData), of both calculators
addRoundData(roundData) ==
    LET g == roundData.gameId
        data1 == MapSet(gameData, g, Append(MapGetOrSet(gameData, g, <<>>), roundData))
    IN  /\ gameData' = data1
        /\ statistics' = MapSet(statistics, g,
                                updateStatistics(MapGetOrSet(statistics, g, initializeStatistics),
                                                 roundData.betAmount, roundData.payout))
        /\ onlineStatistics' = MapSet(onlineStatistics, g,
                                      updateStatisticsOnline(
                                          MapGetOrSet(onlineStatistics, g, initializeStatisticsOnline),
                                          Len(data1[g]), roundData.betAmount, roundData.payout))
        /\ answer' = NoAnswer

\* the sentinels are handed out as they are
getGameStatistics_raw(gameId) ==
    IF gameId \notin DOMAIN onlineStatistics \/ Len(MapGetOrEmpty(gameData, StringArg(gameId))) = 0
    THEN JsNull
    ELSE LET stats == onlineStatistics[gameId]
         IN  [k |-> "object", v |-> Int2Rat(0),
              roundCount |-> Len(gameData[gameId]),
              meanRTP |-> JsToFixed(JsNum(stats.meanRTP), 4),
              standardDeviation |-> JsToFixed(stats.standardDeviation, 4),
              variance |-> JsToFixed(JsNum(stats.variance), 4),
              minRTP |-> JsToFixed(stats.minRTP, 4),
              maxRTP |-> JsToFixed(stats.maxRTP, 4)]

\* getGameStatistics of src/core/rtp-stats.js
getGameStatistics(gameId) ==
    IF gameId \notin DOMAIN onlineStatistics \/ Len(MapGetOrEmpty(gameData, StringArg(gameId))) = 0
    THEN JsNull
    ELSE LET stats == onlineStatistics[gameId]
         IN  [k |-> "object", v |-> Int2Rat(0),
              roundCount |-> Len(gameData[gameId]),
              meanRTP |-> JsToFixed(JsNum(stats.meanRTP), 4),
              standardDeviation |-> JsToFixed(stats.standardDeviation, 4),
              variance |-> JsToFixed(JsNum(stats.variance), 4),
              minRTP |-> IF stats.minRTP = JsInfinity THEN JsNum(Int2Rat(0))
                         ELSE JsToFixed(stats.minRTP, 4),
              maxRTP |-> IF stats.maxRTP = JsNegInfinity THEN JsNum(Int2Rat(0))
                         ELSE JsToFixed(stats.maxRTP, 4)]

\* getStatistics of rtp/src/core/rtp-calc.js
getStatistics(gameId) ==
    IF gameId \notin DOMAIN statistics THEN JsNull
    ELSE LET stats == statistics[gameId]
         IN  [k |-> "object", v |-> Int2Rat(0),
              roundCount |-> stats.roundCount,
              meanRTP |-> JsToFixed(JsNum(stats.meanRTP), 4),
              standardDeviation |-> JsToFixed(stats.standardDeviation, 4),
              variance |-> JsToFixed(JsNum(stats.variance), 4),
              minRTP |-> IF stats.minRTP = JsInfinity THEN JsNum(Int2Rat(0))
                         ELSE JsToFixed(stats.minRTP, 4),
              maxRTP |-> IF stats.maxRTP = JsNegInfinity THEN JsNum(Int2Rat(0))
                         ELSE JsToFixed(stats.maxRTP, 4)]

\* RTPStatistics.calculateRTPPerRound of src/core/rtp-stats.js
RECURSIVE calculateRTPPerRound(_)
calculateRTPPerRound(rounds) ==
    IF rounds = <<>> THEN <<>>
    ELSE (IF rounds[1].betAmount > 0
          THEN <<Percent(rounds[1].payout, rounds[1].betAmount)>> ELSE <<>>)
             \o calculateRTPPerRound(Tail(rounds))

RECURSIVE SmallestOf(_)
SmallestOf(values) ==
    IF Len(values) = 1 THEN values[1]
    ELSE LET rest == SmallestOf(Tail(values))
         IN  IF RatLeq(values[1], rest) THEN values[1] ELSE rest

RECURSIVE LargestOf(_)
LargestOf(values) ==
    IF Len(values) = 1 THEN values[1]
    ELSE LET rest == LargestOf(Tail(values))
         IN  IF RatLeq(rest, values[1]) THEN values[1] ELSE rest

\* RTPStatistics.calculateBasicStatistics of src/core/rtp-stats.js: count, mean,
\* variance, standard deviation, min and max of its result
calculateBasicStatistics(rtpValues) ==
    IF Len(rtpValues) = 0 THEN [k |-> "object", v |-> Int2Rat(0)]
    ELSE LET n == Len(rtpValues)
             mean == RatDiv(RatSum(rtpValues), Int2Rat(n))
             variance == JsDiv(SumSquares(rtpValues, mean), Int2Rat(n - 1))
         IN  [k |-> "object", v |-> Int2Rat(0),
              count |-> JsNum(Int2Rat(n)),
              mean |-> JsToFixed(JsNum(mean), 4),
              variance |-> JsToFixed(variance, 4),
              standardDeviation |-> JsToFixed(JsSqrt(variance), 4),
              min |-> JsToFixed(JsNum(SmallestOf(rtpValues)), 4),
              max |-> JsToFixed(JsNum(LargestOf(rtpValues)), 4)]

\* the number of rounds the calculator holds
RoundsHeld ==
    Len(MapGetOrEmpty(gameData, StringArg("g1"))) + Len(MapGetOrEmpty(gameData, StringArg("g2")))

CalcCall(op, gameId, value) == [op |-> op, gameId |-> gameId, value |-> value]

AddRoundData ==
    /\ RoundsHeld < MaxRounds
    /\ \E roundData \in CalcRounds : addRoundData(roundData)
    /\ UNCHANGED <<config, gameRounds, rtpHistory, criticalErrors, totalBets, totalPayouts,
                   perGameStats, perClientStats, report, lastCall>>
    /\ UNCHANGED <<fetchVars, held, gameTest>>

GetStatistics ==
    /\ \E gameId \in Games : answer' = CalcCall("getStatistics", gameId, getStatistics(gameId))
    /\ UNCHANGED <<engineVars, fetchVars, held, statistics, onlineStatistics, gameTest>>

GetGameStatistics ==
    /\ \E gameId \in Games :
           answer' = CalcCall("getGameStatistics", gameId, getGameStatistics(gameId))
    /\ UNCHANGED <<engineVars, fetchVars, held, statistics, onlineStatistics, gameTest>>

\* the basic statistics of performStatisticalAnalysis on the rounds of one game
CalculateBasicStatistics ==
    /\ \E gameId \in Games :
           answer' = CalcCall("calculateBasicStatistics", gameId,
                              calculateBasicStatistics(calculateRTPPerRound(
                                  MapGetOrEmpty(gameData, StringArg(gameId)))))
    /\ UNCHANGED <<engineVars, fetchVars, held, statistics, onlineStatistics, gameTest>>

InitCalc ==
    /\ Constructed([minRoundsForRTPValidation |-> 2])
    /\ DataSourceConstructed(0, 0)
    /\ held = NoHeld
    /\ NoCalculatorUse
    /\ gameTest = NoGameTest

NextCalc == AddRoundData \/ GetStatistics \/ GetGameStatistics \/ CalculateBasicStatistics

SpecCalc == InitCalc /\ [][NextCalc]_vars

\* ------------------------------------------------------ executeGameTest
\* One call of executeGameTest (api/src/core/rtp-orch.js).  gameTest.batches are
\* the batches not yet started, gameTest.current the group handed to
\* Promise.all, whose requests are all in flight and settle in any order,
\* gameTest.settled the answers in the order in which they arrived, and
\* gameTest.results the array the call returns.  A step is one callback.
RECURSIVE BuildBatches(_, _, _, _)
BuildBatches(i, id, total, size) ==
    IF i < total
    THEN <<[id |-> id, spins |-> Min(size, total - i), pending |-> TRUE]>>
             \o BuildBatches(i + size, id + 1, total, size)
    ELSE <<>>

\* what executeSpinBatch gives for a batch: an array of rounds (empty when there
\* is no token or the response has another format), or a rejection
SpinBatchOutcomes(batch) ==
    {[kind |-> "array", items |-> BatchRounds(batch.id, n)] : n \in 0..batch.spins}
        \cup {[kind |-> "error", items |-> <<>>]}

\* the promise of a failed batch is left rejected, and Promise.all rejects with it
batchFailed_unhandled(test) == [test EXCEPT !.pc = "threw"]

\* .catch(err => { log(...); return null; })
batchFailed(test) == test

\* .then(data => { if (Array.isArray(data)) results.push(...data); ... })
batchSucceeded(test, data) ==
    IF data.kind = "array" THEN [test EXCEPT !.results = @ \o data.items] ELSE test

GameTestStarted(total, size, concurrency) ==
    gameTest = [pc |-> "loop", batches |-> BuildBatches(0, 1, total, size),
                concurrency |-> concurrency, current |-> <<>>,
                settled |-> <<>>, results |-> <<>>]

\* const current = batches.splice(0, concurrency); the requests are sent
GameTestSplice ==
    /\ gameTest.pc = "loop"
    /\ gameTest.batches # <<>>
    /\ LET n == Min(gameTest.concurrency, Len(gameTest.batches))
       IN  gameTest' = [gameTest EXCEPT !.pc = "await",
                                        !.current = SubSeq(gameTest.batches, 1, n),
                                        !.batches = SubSeq(gameTest.batches, n + 1,
                                                           Len(gameTest.batches))]
    /\ UNCHANGED <<engineVars, fetchVars, held, calcVars>>

\* the request of one batch of the group settles and its callback runs
GameTestSettle ==
    /\ gameTest.pc = "await"
    /\ \E i \in DOMAIN gameTest.current :
           /\ gameTest.current[i].pending
           /\ \E data \in SpinBatchOutcomes(gameTest.current[i]) :
                  LET noted == [gameTest EXCEPT
                                    !.current[i].pending = FALSE,
                                    !.settled = Append(@, [id |-> gameTest.current[i].id,
                                                           kind |-> data.kind,
                                                           items |-> data.items])]
                  IN  gameTest' = IF data.kind = "error" THEN batchFailed(noted)
                                  ELSE batchSucceeded(noted, data)
    /\ UNCHANGED <<engineVars, fetchVars, held, calcVars>>

\* await Promise.all(promises) resumes once every promise of the group is settled
GameTestAwaited ==
    /\ gameTest.pc = "await"
    /\ \A i \in DOMAIN gameTest.current : ~gameTest.current[i].pending
    /\ gameTest' = [gameTest EXCEPT !.pc = "loop", !.current = <<>>]
    /\ UNCHANGED <<engineVars, fetchVars, held, calcVars>>

\* the while loop ends: return results
GameTestReturn ==
    /\ gameTest.pc = "loop"
    /\ gameTest.batches = <<>>
    /\ gameTest' = [gameTest EXCEPT !.pc = "returned"]
    /\ UNCHANGED <<engineVars, fetchVars, held, calcVars>>

InitGameTest ==
    /\ Constructed([minRoundsForRTPValidation |-> 2])
    /\ DataSourceConstructed(0, 0)
    /\ held = NoHeld
    /\ NoCalculatorUse
    /\ \E total \in 1..MaxTotalSpins, size \in 1..MaxBatchSize, concurrency \in 1..MaxConcurrency :
           GameTestStarted(total, size, concurrency)

NextGameTest == GameTestSplice \/ GameTestSettle \/ GameTestAwaited \/ GameTestReturn

SpecGameTest == InitGameTest /\ [][NextGameTest]_vars

\* ================================================================ claims
Last(seq) == seq[Len(seq)]
IsPrefix(a, b) == Len(a) <= Len(b) /\ a = SubSeq(b, 1, Len(a))
Accepted == Len(gameRounds') = Len(gameRounds) + 1
RecomputedRTP(rounds) ==
    Percent(SumField(rounds, "payout"), SumField(rounds, "betAmount"))
Scenario ==
    <<GameRound(100, 96, "g1", "c1"), GameRound(50, 48, "g1", "c1"),
      GameRound(200, 192, "g1", "c1")>>

\* C1: whenever at least one round has been accepted since the last reset and
\* every accepted round has betAmount > 0, getCurrentCumulativeRTP, and the
\* finalOverallActualRTP of a report just generated, equal
\* sum(payout) / sum(betAmount) * 100 recomputed from the stored raw rounds;
\* for the rounds (100,96), (50,48), (200,192) that is 96 and the report is valid.
C1_WeightedRTP ==
    (gameRounds # <<>> /\ \A i \in DOMAIN gameRounds : gameRounds[i].betAmount > 0) =>
        /\ getCurrentCumulativeRTP = RecomputedRTP(gameRounds)
        /\ report.generated => report.finalOverallActualRTP = RecomputedRTP(gameRounds)
        /\ gameRounds = Scenario =>
              /\ getCurrentCumulativeRTP = Int2Rat(96)
              /\ report.generated => report.isFinalOverallRTPValid

C1_Witness ==
    /\ gameRounds = Scenario
    /\ report.generated
    /\ report.finalOverallActualRTP = Int2Rat(96)
    /\ report.isFinalOverallRTPValid

CumulativeOf(rounds) ==
    IF SumField(rounds, "betAmount") = 0 THEN Int2Rat(0) ELSE RecomputedRTP(rounds)
DeviationOf(rounds) == RatAbs(RatSub(CumulativeOf(rounds), config.overallTargetRTP))
Flagged(type, scope, count) ==
    \E j \in DOMAIN criticalErrors :
        /\ criticalErrors[j].type = type
        /\ criticalErrors[j].scope = scope
        /\ criticalErrors[j].roundCount = count

\* C2: the validity decision is |actual - target| <= tolerance and the critical
\* decision is |actual - target| > tolerance * criticalFactor: the report's
\* isFinalOverallRTPValid, the isWithinTolerance recorded by every snapshot, and
\* the flagging of the overall scope by every snapshot follow these two formulas.
C2_Decisions ==
    /\ report.generated =>
           report.isFinalOverallRTPValid =
               RatLeq(DeviationOf(gameRounds), config.overallTolerance)
    /\ \A i \in DOMAIN rtpHistory :
           LET e == rtpHistory[i]
               dev == DeviationOf(SubSeq(gameRounds, 1, e.roundCount))
           IN  /\ e.isWithinTolerance = JsBool(RatLeq(dev, config.overallTolerance))
               /\ RatGt(dev, criticalBand) <=>
                      Flagged("Overall RTP Deviation", "overall", e.roundCount)

\* C3: right after a snapshotRTP call made with at least minRoundsForRTPValidation
\* rounds and an overall cumulative RTP that deviates from the overall target by
\* more than overallTolerance * criticalToleranceFactor, the anomaly log holds an
\* overall RTP-deviation record stamped with the current round count.
C3_CriticalLogged ==
    ( /\ lastCall.op = "snapshotRTP"
      /\ Len(gameRounds) >= config.minRoundsForRTPValidation
      /\ RatGt(DeviationOf(gameRounds), criticalBand) )
        => Flagged("Overall RTP Deviation", "overall", Len(gameRounds))

RTPDeviationTypes == {"Overall RTP Deviation", "Game RTP Deviation", "Client RTP Anomaly"}
ScopeRounds(type, scope, count) ==
    CASE type = "Game RTP Deviation" ->
             Cardinality({i \in 1..count : gameRounds[i].gameId = scope})
      [] type = "Client RTP Anomaly" ->
             Cardinality({i \in 1..count : gameRounds[i].clientId = scope})
      [] OTHER -> count

\* C4: every RTP-deviation record of the anomaly log (overall, per game or per
\* client) was appended when its scope had at least minRoundsForRTPValidation rounds.
C4_NoSmallSampleAnomaly ==
    \A j \in DOMAIN criticalErrors :
        LET e == criticalErrors[j]
        IN  e.type \in RTPDeviationTypes =>
                ScopeRounds(e.type, e.scope, e.roundCount) >= config.minRoundsForRTPValidation

\* a snapshot has just been taken while a client with fewer rounds than the
\* minimum deviates from the target by more than the client band
C4_Witness ==
    /\ lastCall.op = "snapshotRTP"
    /\ rtpHistory # <<>>
    /\ Last(rtpHistory).roundCount = Len(gameRounds)
    /\ \E c \in DOMAIN perClientStats :
           /\ perClientStats[c].rounds < config.minRoundsForRTPValidation
           /\ perClientStats[c].totalBets > 0
           /\ RatGt(RatAbs(RatSub(Percent(perClientStats[c].totalPayouts,
                                          perClientStats[c].totalBets),
                                  config.overallTargetRTP)),
                    RatMul(config.overallTolerance, Int2Rat(3)))

StreakBefore(stats, id) ==
    IF id \in DOMAIN stats THEN stats[id].currentLosingStreak ELSE 0
NewErrors == SubSeq(criticalErrors', Len(criticalErrors) + 1, Len(criticalErrors'))

C6_GameStreak ==
    [][Accepted =>
        LET r == Last(gameRounds')
            g == r.gameId
            before == StreakBefore(perGameStats, g)
        IN  (r.payout >= r.betAmount /\ before >= config.maxLosingStreak) =>
                /\ perGameStats'[g].currentLosingStreak = 0
                /\ \E j \in DOMAIN NewErrors :
                       /\ NewErrors[j].scope = g
                       /\ NewErrors[j].message[1] = Int2Rat(before)
    ]_vars

RECURSIVE Flatten(_)
Flatten(answers) ==
    IF answers = <<>> THEN <<>> ELSE answers[1].rounds \o Flatten(Tail(answers))
Failed == supplied # <<>> /\ Last(supplied).kind # "rounds"

\* C7: when the first k batch requests of a run were answered with rounds and
\* the next one failed, fetchGameRounds has returned (not thrown), and what it
\* returned is the rounds of those k answers, in the order received.
C7_PartialResult ==
    ( /\ Failed
      /\ \A i \in 1..(Len(supplied) - 1) : supplied[i].kind = "rounds" )
        => /\ fetchPc = "returned"
           /\ fetchResult = Flatten(SubSeq(supplied, 1, Len(supplied) - 1))

\* three batches of one round were to be fetched; two were delivered in full
\* and the third failed: the two rounds delivered were returned
C7_Witness ==
    /\ totalSpins = 3
    /\ batchSize = 1
    /\ Len(supplied) = 3
    /\ supplied[1].kind = "rounds" /\ Len(supplied[1].rounds) = 1
    /\ supplied[2].kind = "rounds" /\ Len(supplied[2].rounds) = 1
    /\ supplied[3].kind = "error"
    /\ fetchPc = "returned"
    /\ fetchResult = <<<<1, 1>>, <<2, 1>>>>

\* C8: a failed batch (a rejection, or an answer without a rounds array) is the
\* last request of its run: every earlier request of the run was answered with
\* rounds, and the run has ended with the rounds collected before the failure.
C8_NoRequestAfterFailure ==
    /\ \A i \in 1..(Len(supplied) - 1) : supplied[i].kind = "rounds"
    /\ Failed => fetchPc = "returned" /\ fetchResult = dsGameRounds

\* a run ended by an answer without a rounds array, after one good batch, with
\* rounds still outstanding
C8_Witness ==
    /\ Len(supplied) = 2
    /\ supplied[1].kind = "rounds"
    /\ supplied[2].kind = "array"
    /\ currentSpinCount < totalSpins
    /\ fetchPc = "returned"

\* C9: the value fetchGameRounds returns signals wasPartial exactly when a batch
\* failure ended the run before totalSpins rounds were collected, and then
\* carries the failure reason.
C9_PartialSignalled ==
    fetchPc = "returned" =>
        LET partial == Failed /\ currentSpinCount < totalSpins
        IN  /\ Truthy(ArrayGet(fetchResult, "wasPartial")) <=> partial
            /\ partial => ArrayGet(fetchResult, "reason").k # "undefined"

StatsBefore(stats, id) == IF id \in DOMAIN stats THEN stats[id] ELSE NewStats

\* C13: a step that accepts a round with betAmount = 0 adds 1 to the round count
\* of the overall scope, of the round's game and of its client, and leaves the
\* bet sum and the payout sum of each of these three scopes unchanged.
C13_ZeroBet ==
    [][(Accepted /\ Last(gameRounds').betAmount = 0) =>
        LET r == Last(gameRounds')
            g == StatsBefore(perGameStats, r.gameId)
            c == StatsBefore(perClientStats, r.clientId)
        IN  /\ totalBets' = totalBets
            /\ totalPayouts' = totalPayouts
            /\ perGameStats'[r.gameId].rounds = g.rounds + 1
            /\ perGameStats'[r.gameId].totalBets = g.totalBets
            /\ perGameStats'[r.gameId].totalPayouts = g.totalPayouts
            /\ perClientStats'[r.clientId].rounds = c.rounds + 1
            /\ perClientStats'[r.clientId].totalBets = c.totalBets
            /\ perClientStats'[r.clientId].totalPayouts = c.totalPayouts
    ]_vars

\* C11: no engine runs with an invalid configuration: the minimum number of
\* rounds for validation and the tolerance of a constructed engine are positive
\* (a constructor call with a value <= 0 fails and produces no engine).
C11_FailFast ==
    /\ config.minRoundsForRTPValidation > 0
    /\ RatGt(config.overallTolerance, Int2Rat(0))

ConfiguredTarget(g) ==
    IF g \in DOMAIN config.gameSpecificRTPs
    THEN config.gameSpecificRTPs[g] ELSE config.overallTargetRTP

C15_ClientBand ==
    \A c \in DOMAIN perClientStats :
        /\ clientCheck(c).target = config.overallTargetRTP
        /\ RatGt(config.overallTolerance, Int2Rat(0)) => RatGt(clientBand, criticalBand)

\* C16: a call of generateReport changes nothing of the engine (rounds, sums,
\* per-game and per-client records with their streaks, snapshot history, anomaly
\* log), and in the state it leaves a further call returns the very report it
\* has just returned.
C16_PureRead ==
    /\ [][lastCall'.op = "generateReport" => UNCHANGED statsVars /\ report'.generated]_vars
    /\ [](lastCall.op = "generateReport" => report = reportOf)

\* a report of an engine that holds rounds, a snapshot and an anomaly record
C16_Witness ==
    /\ lastCall.op = "generateReport"
    /\ report = reportOf
    /\ Len(report.criticalErrorsDetails) = 1
    /\ Len(report.rtpHistorySnapshots) = 1
    /\ report.totalRoundsSimulated = 3

\* C17: a report that a caller keeps does not change while the engine goes on
\* (addGameRound, snapshotRTP, reset, with the anomalies and snapshots they
\* record), and a change the caller makes to the report leaves the engine's
\* state unchanged.
C17_ImmutableReport ==
    [][(held.kept /\ held'.kept) =>
        /\ lastCall'.op # "mutateReport" => held'.report = held.report
        /\ lastCall'.op = "mutateReport" => UNCHANGED statsVars
    ]_vars

\* C18: every call other than reset leaves the anomaly log a prefix of the log
\* after the call (records keep their content and position, the count never
\* decreases), and reset leaves it empty.
C18_AppendOnly ==
    [][ /\ lastCall'.op # "reset" => IsPrefix(criticalErrors, criticalErrors')
        /\ lastCall'.op = "reset" => criticalErrors' = <<>>
    ]_vars

\* a record written at the second round is still first in the log after a
\* third round, a loss, has been accepted
C18_Witness ==
    /\ lastCall.op = "addGameRound"
    /\ Len(gameRounds) = 3
    /\ Last(gameRounds).payout < Last(gameRounds).betAmount
    /\ criticalErrors # <<>>
    /\ criticalErrors[1].roundCount = 2

FreshStats(passed) ==
    <<MergeConfig(passed), [g \in {} |-> <<>>], <<>>, <<>>, <<>>, 0, 0,
      [g \in {} |-> NewStats], [c \in {} |-> NewStats]>>

\* C19: right after reset the engine is in the state of a freshly constructed
\* engine with the same configuration: no rounds, no per-game or per-client
\* records, zero sums, empty snapshot history, empty anomaly log; what it does
\* and reports from there on is what the fresh engine does and reports.
C19_ResetIsFresh ==
    [][lastCall'.op = "reset" =>
        /\ config' = config
        /\ \E passed \in PassedConfigs : statsVars' = FreshStats(passed)
    ]_vars

\* reset has emptied the engine: a report taken now is the report of a fresh one
C19_Witness ==
    /\ lastCall.op = "reset"
    /\ gameRounds = <<>>
    /\ reportOf.totalRoundsSimulated = 0
    /\ reportOf.criticalErrorCount = 0
    /\ reportOf.rtpHistorySnapshots = <<>>
    /\ DOMAIN reportOf.perGameSummary = {}

\* the largest value the losing streak of scope id has taken over the rounds
RECURSIVE LargestStreak(_, _, _, _, _)
LargestStreak(rounds, field, id, current, largest) ==
    IF rounds = <<>> THEN largest
    ELSE LET r == rounds[1]
             next == IF r[field] # id THEN current
                     ELSE IF r.payout < r.betAmount THEN current + 1 ELSE 0
         IN  LargestStreak(Tail(rounds), field, id, next,
                           IF next > largest THEN next ELSE largest)

\* C20: for every game and every client the engine tracks, the scope's
\* longestLosingStreak is the largest value its currentLosingStreak has taken
\* since the scope was created.
C20_LongestStreak ==
    /\ \A g \in DOMAIN perGameStats :
           StatsGet(perGameStats[g], "longestLosingStreak") =
               JsNum(Int2Rat(LargestStreak(gameRounds, "gameId", g, 0, 0)))
    /\ \A c \in DOMAIN perClientStats :
           StatsGet(perClientStats[c], "longestLosingStreak") =
               JsNum(Int2Rat(LargestStreak(gameRounds, "clientId", c, 0, 0)))

\* the per-round RTP values of the rounds of a game that bet something, their
\* mean and their sample variance, computed in two passes
ValuesOf(gameId) == calculateRTPPerRound(MapGetOrEmpty(gameData, StringArg(gameId)))
MeanOf(values) == RatDiv(RatSum(values), Int2Rat(Len(values)))
SampleVariance(values) == RatDiv(SumSquares(values, MeanOf(values)), Int2Rat(Len(values) - 1))
AllBet(gameId) ==
    \A i \in DOMAIN gameData[gameId] : gameData[gameId][i].betAmount > 0

\* C21: the meanRTP that getStatistics reports for a game is the unweighted mean
\* of the per-round RTP percentages of the game's rounds (here: of a game whose
\* rounds all bet something), not the cumulative payouts / bets * 100.
C21_MeanIsUnweighted ==
    ( /\ answer.op = "getStatistics"
      /\ answer.value.k = "object"
      /\ AllBet(answer.gameId) )
        => answer.value.meanRTP = JsNum(RatToFixed(MeanOf(ValuesOf(answer.gameId)), 4))

\* C23: for every game, the mean kept by the online update equals the two-pass
\* mean of the per-round RTP values of the game's rounds with betAmount > 0, and
\* with two or more such values the variance kept equals their sample variance.
C23_OnlineMatchesTwoPass ==
    \A g \in DOMAIN onlineStatistics :
        LET values == ValuesOf(g)
        IN  /\ Len(values) >= 1 => onlineStatistics[g].meanRTP = MeanOf(values)
            /\ Len(values) >= 2 => onlineStatistics[g].variance = SampleVariance(values)

\* C24: the variance that calculateBasicStatistics and getStatistics report is
\* the sample variance (denominator count - 1) of the per-round values, and with
\* fewer than 2 values the variance and the standard deviation reported are 0.
C24_SampleVariance ==
    /\ answer.op = "calculateBasicStatistics" =>
           LET values == ValuesOf(answer.gameId)
           IN  IF Len(values) < 2
               THEN /\ JsGet(answer.value, "variance") = JsNum(Int2Rat(0))
                    /\ JsGet(answer.value, "standardDeviation") = JsNum(Int2Rat(0))
               ELSE JsGet(answer.value, "variance") =
                        JsNum(RatToFixed(SampleVariance(values), 4))
    /\ (answer.op = "getStatistics" /\ answer.value.k = "object") =>
           LET values == statistics[answer.gameId].rtpValues
           IN  IF Len(values) < 2
               THEN /\ answer.value.variance = JsNum(Int2Rat(0))
                    /\ answer.value.standardDeviation = JsNum(Int2Rat(0))
               ELSE answer.value.variance = JsNum(RatToFixed(SampleVariance(values), 4))

StatisticsFields == {"meanRTP", "standardDeviation", "variance", "minRTP", "maxRTP"}

\* C25: no statistics object handed out by getStatistics or getGameStatistics
\* holds +Infinity or -Infinity, and for a game whose minimum and maximum were
\* never updated by a round both are reported as 0.
C25_NoSentinel ==
    (answer.op \in {"getStatistics", "getGameStatistics"} /\ answer.value.k = "object") =>
        /\ \A f \in StatisticsFields :
               answer.value[f].k \notin {"Infinity", "-Infinity"}
        /\ ( /\ answer.op = "getGameStatistics"
             /\ onlineStatistics[answer.gameId].minRTP = JsInfinity )
               => /\ answer.value.minRTP = JsNum(Int2Rat(0))
                  /\ answer.value.maxRTP = JsNum(Int2Rat(0))

\* statistics were asked for a game that holds only rounds without a bet, so
\* that its minimum and maximum are still the sentinels
C25_Witness ==
    /\ answer.op = "getGameStatistics"
    /\ answer.value.k = "object"
    /\ answer.value.roundCount >= 1
    /\ onlineStatistics[answer.gameId].minRTP = JsInfinity
    /\ onlineStatistics[answer.gameId].maxRTP = JsNegInfinity
    /\ answer.value.minRTP = JsNum(Int2Rat(0))

\* the number of rounds collected before request number i of the run
CollectedBefore(i) == Len(Flatten(SubSeq(supplied, 1, i - 1)))

\* C22: every batch request of a run asks for
\* min(batchSize, totalSpins - rounds collected so far) rounds: at least one, at
\* most batchSize and at most the number still outstanding.
C22_BatchSizeAsked ==
    \A i \in DOMAIN supplied :
        /\ supplied[i].asked = Min(batchSize, totalSpins - CollectedBefore(i))
        /\ supplied[i].asked >= 1
        /\ supplied[i].asked <= batchSize
        /\ supplied[i].asked <= totalSpins - CollectedBefore(i)

\* with 3 rounds to fetch in batches of 2, the first request asked for 2 and got
\* them, and the second asked for the 1 round outstanding
C22_Witness ==
    /\ totalSpins = 3
    /\ batchSize = 2
    /\ Len(supplied) = 2
    /\ supplied[1].asked = 2 /\ Len(supplied[1].rounds) = 2
    /\ supplied[2].asked = 1

\* C26: a run of fetchGameRounds issues at most totalSpins batch requests,
\* whatever the supplier answers.
C26_BoundedRequests == Len(supplied) <= totalSpins

\* C27: a step in which executeSpinBatch resolves to its array of n >= 1 rounds
\* appends those n rounds to the accumulated rounds, adds n to the collected
\* count and leaves the run in its loop.
C27_SuccessfulBatch ==
    [][( /\ Len(supplied') = Len(supplied) + 1
         /\ Last(supplied').kind = "array"
         /\ Len(Last(supplied').items) >= 1 ) =>
        /\ dsGameRounds' = dsGameRounds \o Last(supplied').items
        /\ currentSpinCount' = currentSpinCount + Len(Last(supplied').items)
        /\ fetchPc' = "loop"
    ]_vars

\* C28: the rounds accumulated by the data source, and the rounds it returns,
\* are never more than totalSpins.
C28_NeverExceeds ==
    /\ Len(dsGameRounds) <= totalSpins
    /\ fetchPc = "returned" => Len(fetchResult) <= totalSpins

RECURSIVE SumOver(_, _, _)
SumOver(stats, field, ids) ==
    IF ids = {} THEN 0
    ELSE LET id == CHOOSE x \in ids : TRUE
         IN  stats[id][field] + SumOver(stats, field, ids \ {id})
SumOfGames(field) == SumOver(perGameStats, field, DOMAIN perGameStats)
SumOfClients(field) == SumOver(perClientStats, field, DOMAIN perClientStats)

\* C29: the number of stored rounds is the sum of the per-game round counts and
\* the sum of the per-client round counts, the overall bet and payout totals are
\* the sums of the per-game and of the per-client totals, and a report just
\* generated gives the number of stored rounds as totalRoundsSimulated.
C29_SumsOverScopes ==
    /\ Len(gameRounds) = SumOfGames("rounds")
    /\ Len(gameRounds) = SumOfClients("rounds")
    /\ totalBets = SumOfGames("totalBets")
    /\ totalBets = SumOfClients("totalBets")
    /\ totalPayouts = SumOfGames("totalPayouts")
    /\ totalPayouts = SumOfClients("totalPayouts")
    /\ totalBets = SumField(gameRounds, "betAmount")
    /\ totalPayouts = SumField(gameRounds, "payout")
    /\ report.generated => report.totalRoundsSimulated = Len(gameRounds)

\* a report of three rounds spread over two games and two clients
C29_Witness ==
    /\ report.generated
    /\ report.totalRoundsSimulated = 3
    /\ DOMAIN perGameStats = {"g1", "g2"}
    /\ DOMAIN perClientStats = {"c1", "c2"}
    /\ totalBets > 0

\* the rounds of the batches that succeeded so far, in the order of arrival
RECURSIVE Succeeded(_)
Succeeded(answers) ==
    IF answers = <<>> THEN <<>>
    ELSE (IF answers[1].kind = "array" THEN answers[1].items ELSE <<>>)
             \o Succeeded(Tail(answers))
Occurrences(seq, x) == Cardinality({i \in DOMAIN seq : seq[i] = x})

\* C30: executeGameTest never raises; at most maxConcurrentGames batches are in
\* flight; its results hold every round of every batch that has succeeded
\* exactly once and nothing else, whatever the order in which the batches of a
\* group settle and whichever of them fail; and it returns only when every
\* batch has settled.
C30_ConcurrentBatches ==
    /\ gameTest.pc # "threw"
    /\ Len(gameTest.current) <= gameTest.concurrency
    /\ Len(gameTest.results) = Len(Succeeded(gameTest.settled))
    /\ \A j \in DOMAIN Succeeded(gameTest.settled) :
           Occurrences(gameTest.results, Succeeded(gameTest.settled)[j]) = 1
    /\ gameTest.pc = "returned" =>
           /\ gameTest.current = <<>>
           /\ \A id \in 1..Len(gameTest.settled) :
                  Cardinality({j \in DOMAIN gameTest.settled : gameTest.settled[j].id = id}) = 1

\* a call has returned after two batches of one group settled in the reverse of
\* the order in which they were started, the one that settled first failed, and
\* the other's round was returned
C30_Witness ==
    /\ gameTest.pc = "returned"
    /\ gameTest.concurrency = 2
    /\ Len(gameTest.settled) >= 2
    /\ gameTest.settled[1].id = 2 /\ gameTest.settled[1].kind = "error"
    /\ gameTest.settled[2].id = 1 /\ gameTest.settled[2].kind = "array"
    /\ gameTest.results # <<>>
    /\ gameTest.results[1] = <<1, 1>>

====
